---- MODULE Spec2Model ----
(***************************************************************************)
(* Pod sandbox metadata store of virtlet (pkg/metadata/sandboxes.go) on    *)
(* top of a bolt database: Retrieve, Save and ListPodSandboxes run by      *)
(* concurrent callers against one shared store handle.                     *)
(*                                                                         *)
(* Spec starts on a new, empty file and runs two concurrent callers;       *)
(* FairSpec adds the fairness of the scheduler; SpecOpened starts on any   *)
(* file found on disk, damaged ones included, and runs one caller.         *)
(*                                                                         *)
(* Byte strings (IDs, bucket names) are sequences of byte values.  A Go    *)
(* pointer is a sequence of length 0 (nil) or 1 (pointing to its element). *)
(* A Go error is a string, "" being the nil error.                         *)
(***************************************************************************)
EXTENDS Integers, Sequences, FiniteSets, TLC

\* Total number of calls the callers issue.
MaxCalls == 3

\* The concurrent callers (goroutines) sharing the store handle.
Procs == {1, 2}

Nil == << >>
Ptr(v) == << v >>
Deref(ptr) == ptr[1]

NoErr == ""
ErrInvalidArgument == "Pod sandbox ID cannot be empty"
ErrNotFound == "pod sandbox does not exist"
ErrNoData == "no data found for pod id"
ErrUpdater == "updater error"
ErrDecode == "invalid character in payload"

\* ------------------------------------------------------------------ keys
\* []byte("sandboxes/")
sandboxKeyPrefix == << 115, 97, 110, 100, 98, 111, 120, 101, 115, 47 >>

\* Mutant: the array behind sandboxKeyPrefix has room for six more bytes, as
\* an array allocated at run time in a 16-byte size class has.
sandboxKeyPrefixCapSpare == Len(sandboxKeyPrefix) + 6

\* Capacity of the array behind sandboxKeyPrefix: the compiler lays the
\* package-level []byte("sandboxes/") out statically with cap = len.
sandboxKeyPrefixCap == 10

\* "" , "a", "b"
IDs == { << >>, << 97 >>, << 98 >> }

\* The array behind sandboxKeyPrefix as the program starts: the prefix, then
\* whatever spare capacity the array has.
PrefixArrayInit ==
    [i \in 1..sandboxKeyPrefixCap |->
        IF i <= Len(sandboxKeyPrefix) THEN sandboxKeyPrefix[i] ELSE 0]

\* Whether append(sandboxKeyPrefix, id...) fits the array behind the prefix
\* and so writes into it instead of allocating a new array.
AppendInPlace(id) == Len(sandboxKeyPrefix) + Len(id) <= sandboxKeyPrefixCap

\* The array behind sandboxKeyPrefix after append(sandboxKeyPrefix, id...).
AppendStore(arr, id) ==
    IF AppendInPlace(id)
    THEN [i \in 1..sandboxKeyPrefixCap |->
            IF i > Len(sandboxKeyPrefix) /\ i <= Len(sandboxKeyPrefix) + Len(id)
            THEN id[i - Len(sandboxKeyPrefix)] ELSE arr[i]]
    ELSE arr

\* Mutant: the ID is not appended, the key is the prefix alone.
sandboxKeyNoID(sandboxID) ==
    [shared |-> FALSE, len |-> Len(sandboxKeyPrefix), bytes |-> sandboxKeyPrefix]

\* The slice sandboxKey returns: a view of the shared array, or a new array.
sandboxKey(sandboxID) ==
    IF AppendInPlace(sandboxID)
    THEN [shared |-> TRUE, len |-> Len(sandboxKeyPrefix) + Len(sandboxID), bytes |-> << >>]
    ELSE [shared |-> FALSE, len |-> Len(sandboxKeyPrefix) + Len(sandboxID),
          bytes |-> sandboxKeyPrefix \o sandboxID]

\* The bytes a key slice holds, given the current contents of the shared array.
KeyBytes(arr, k) == IF k.shared THEN SubSeq(arr, 1, k.len) ELSE k.bytes

NoKey == [shared |-> FALSE, len |-> 0, bytes |-> << >>]

\* Top-level buckets of other kinds of metadata kept in the same file: "r"
\* sorts before every sandbox key, "t" after all of them.
ForeignKeys == { << 114 >>, << 116 >> }

\* Names of the top-level buckets the model's store can hold.
Keys == { sandboxKeyPrefix \o id : id \in IDs } \cup ForeignKeys

\* bytes.HasPrefix
HasPrefix(k, prefix) ==
    Len(k) >= Len(prefix) /\ SubSeq(k, 1, Len(prefix)) = prefix

\* bytes.Compare(a, b) < 0: the order bolt keeps its keys in.
RECURSIVE LexLess(_, _)
LexLess(a, b) ==
    IF b = << >> THEN FALSE
    ELSE IF a = << >> THEN TRUE
    ELSE IF Head(a) # Head(b) THEN Head(a) < Head(b)
    ELSE LexLess(Tail(a), Tail(b))

\* ------------------------------------------------------------------ records
States == { "READY", "NOTREADY" }
Absent == "<absent>"
LabelValues == { "p", "d" }
\* A label map over the one label key "env": absent, or one of the values.
LabelSets == [env : LabelValues \cup {Absent}]

\* types.PodSandboxInfo, as far as this package reads it.
PodSandboxInfo(podID, state, labels) ==
    [PodID |-> podID, State |-> state, Config |-> [Labels |-> labels]]

\* json.Marshal of a PodSandboxInfo: the payload does not carry the ID.
Marshal(psi) == [json |-> [State |-> psi.State, Config |-> psi.Config]]

\* Stored bytes that are no JSON text.
CorruptData == [garbage |-> TRUE]

\* Whether json.Unmarshal parses the payload.
Decodes(data) == "json" \in DOMAIN data

\* json.Unmarshal of a payload into a new PodSandboxInfo.
Unmarshal(data) ==
    [PodID |-> << >>, State |-> data.json.State, Config |-> data.json.Config]

\* fields.Set.Get: the value of a label, "" when the label is not set.
LabelGet(labels, k) == IF labels[k] = Absent THEN "" ELSE labels[k]

\* fields.SelectorFromSet(sel).Matches(labels): every label the selector
\* names has the selector's value; the empty selector matches everything.
SelectorMatches(sel, labels) ==
    \A k \in DOMAIN sel : sel[k] # Absent => LabelGet(labels, k) = sel[k]

\* ------------------------------------------------------------------ store
\* A bucket holds the one slot "data": nil or the payload.
EmptyBucket == [data |-> Nil]

EmptyDB == [k \in Keys |-> Nil]

\* tx.Bucket(key)
TxBucket(store, k) == IF k \in Keys THEN store[k] ELSE Nil

\* tx.CreateBucketIfNotExists(key)
CreateBucketIfNotExists(store, k) ==
    IF store[k] = Nil THEN [store EXCEPT ![k] = Ptr(EmptyBucket)] ELSE store

\* Mutant: only the payload slot is deleted, the bucket stays.
DeleteSlotOnly(store, k) == [store EXCEPT ![k] = Ptr(EmptyBucket)]

\* tx.DeleteBucket(key)
DeleteBucket(store, k) == [store EXCEPT ![k] = Nil]

\* bucket.Put(sandboxDataBucket, data) on the bucket named k
BucketPut(store, k, data) == [store EXCEPT ![k] = Ptr([data |-> Ptr(data)])]

\* The top-level keys of a store, and the cursor moves over them.
BucketKeys(store) == { k \in Keys : store[k] # Nil }

MinKey(S) == IF S = {} THEN Nil
             ELSE Ptr(CHOOSE k \in S : \A j \in S : j = k \/ LexLess(k, j))

\* c.Seek(seek): the first key >= seek
CursorSeek(store, seek) ==
    MinKey({ k \in BucketKeys(store) : ~LexLess(k, seek) })

\* c.Next(): the first key after k
CursorNext(store, k) ==
    MinKey({ j \in BucketKeys(store) : LexLess(k, j) })

\* ------------------------------------------------------------------ code
\* Mutant: the empty ID is not refused.
EmptyIDAccepted(id) == FALSE

\* m.GetID() == "" (the guard of Retrieve and of Save)
EmptyID(id) == id = << >>

\* Mutant: the bucket is created whatever `create` says.
getSandboxBucketCreates(store, arr, podID, create, optional) ==
    LET k == KeyBytes(AppendStore(arr, podID), sandboxKey(podID)) IN
    [store |-> CreateBucketIfNotExists(store, k), bucket |-> Ptr(k), err |-> NoErr]

\* getSandboxBucket(tx, podID, create, optional) on the transaction's view
\* `store`: the view afterwards, the bucket found (by name) and the error.
getSandboxBucket(store, arr, podID, create, optional) ==
    LET k == KeyBytes(AppendStore(arr, podID), sandboxKey(podID)) IN
    IF create
    THEN [store |-> CreateBucketIfNotExists(store, k), bucket |-> Ptr(k), err |-> NoErr]
    ELSE IF TxBucket(store, k) = Nil
         THEN IF optional THEN [store |-> store, bucket |-> Nil, err |-> NoErr]
              ELSE [store |-> store, bucket |-> Nil, err |-> ErrNotFound]
         ELSE [store |-> store, bucket |-> Ptr(k), err |-> NoErr]

\* Mutant: a bucket without payload is reported like a missing bucket.
retrieveSandboxFromDBMissingIsNotFound(store, bucket) ==
    LET data == Deref(store[bucket]).data IN
    IF data = Nil THEN [psi |-> Nil, err |-> ErrNotFound]
    ELSE IF ~Decodes(Deref(data)) THEN [psi |-> Nil, err |-> ErrDecode]
    ELSE [psi |-> Ptr(Unmarshal(Deref(data))), err |-> NoErr]

\* retrieveSandboxFromDB(bucket, &psi), psi being nil before the call
retrieveSandboxFromDB(store, bucket) ==
    LET data == Deref(store[bucket]).data IN
    IF data = Nil THEN [psi |-> Nil, err |-> NoErr]
    ELSE IF ~Decodes(Deref(data)) THEN [psi |-> Nil, err |-> ErrDecode]
    ELSE [psi |-> Ptr(Unmarshal(Deref(data))), err |-> NoErr]

\* Mutant: the encoded record is never put into the bucket.
saveSandboxToDBNoPut(store, bucket, psi) == store

\* saveSandboxToDB(bucket, psi)
saveSandboxToDB(store, bucket, psi) == BucketPut(store, bucket, Marshal(psi))

\* Mutant: the ID is not stamped on the record read.
StampIDMissing(psi, id) == psi

\* psi.PodID = m.GetID()
StampID(psi, id) == [psi EXCEPT !.PodID = id]

\* Mutant: Retrieve asks getSandboxBucket to create the bucket.
RetrieveTxCreating(store, arr, id) ==
    LET b == getSandboxBucket(store, arr, id, TRUE, FALSE) IN
    LET r == retrieveSandboxFromDB(b.store, Deref(b.bucket)) IN
    IF r.err = NoErr /\ r.psi # Nil
    THEN [psi |-> Ptr(StampID(Deref(r.psi), id)), err |-> NoErr, store |-> b.store]
    ELSE [psi |-> r.psi, err |-> r.err, store |-> b.store]

\* The body of Retrieve from the start of its read transaction, which sees
\* `store`, to its return: the record, the error and the view of the
\* transaction when its function has returned.
RetrieveTx(store, arr, id) ==
    LET b == getSandboxBucket(store, arr, id, FALSE, FALSE) IN
    IF b.err # NoErr THEN [psi |-> Nil, err |-> b.err, store |-> b.store]
    ELSE LET r == retrieveSandboxFromDB(b.store, Deref(b.bucket)) IN
         IF r.err = NoErr /\ r.psi # Nil
         THEN [psi |-> Ptr(StampID(Deref(r.psi), id)), err |-> NoErr, store |-> b.store]
         ELSE [psi |-> r.psi, err |-> r.err, store |-> b.store]

\* Retrieve() whose read transaction sees `store`.
Retrieve(store, arr, id) ==
    IF EmptyID(id) THEN [psi |-> Nil, err |-> ErrInvalidArgument, store |-> store]
    ELSE RetrieveTx(store, arr, id)

\* Whether filterPodSandboxMeta decides without calling Retrieve.
FilterSkipsRetrieve(id, filter) ==
    \/ filter = Nil
    \/ Deref(filter).Id # << >> /\ id # Deref(filter).Id

\* Mutant: the state constraint is not checked.
filterPodSandboxMetaNoState(id, filter, store, arr) ==
    IF filter = Nil THEN [fv |-> TRUE, err |-> NoErr]
    ELSE LET f == Deref(filter) IN
    IF f.Id # << >> /\ id # f.Id THEN [fv |-> FALSE, err |-> NoErr]
    ELSE LET r == Retrieve(store, arr, id) IN
    IF r.err # NoErr THEN [fv |-> FALSE, err |-> r.err]
    ELSE IF r.psi = Nil THEN [fv |-> FALSE, err |-> ErrNoData]
    ELSE IF ~SelectorMatches(f.LabelSelector, Deref(r.psi).Config.Labels)
         THEN [fv |-> FALSE, err |-> NoErr]
    ELSE [fv |-> TRUE, err |-> NoErr]

\* Mutant: the ID constraint is checked after the record is read.
filterPodSandboxMetaLateID(id, filter, store, arr) ==
    IF filter = Nil THEN [fv |-> TRUE, err |-> NoErr]
    ELSE LET f == Deref(filter) IN
    LET r == Retrieve(store, arr, id) IN
    IF r.err # NoErr THEN [fv |-> FALSE, err |-> r.err]
    ELSE IF r.psi = Nil THEN [fv |-> FALSE, err |-> ErrNoData]
    ELSE IF f.Id # << >> /\ id # f.Id THEN [fv |-> FALSE, err |-> NoErr]
    ELSE IF f.State # Nil /\ Deref(r.psi).State # Deref(f.State)
         THEN [fv |-> FALSE, err |-> NoErr]
    ELSE IF ~SelectorMatches(f.LabelSelector, Deref(r.psi).Config.Labels)
         THEN [fv |-> FALSE, err |-> NoErr]
    ELSE [fv |-> TRUE, err |-> NoErr]

\* filterPodSandboxMeta(psm, filter), the transaction of psm.Retrieve()
\* seeing `store`.
filterPodSandboxMeta(id, filter, store, arr) ==
    IF filter = Nil THEN [fv |-> TRUE, err |-> NoErr]
    ELSE LET f == Deref(filter) IN
    IF f.Id # << >> /\ id # f.Id THEN [fv |-> FALSE, err |-> NoErr]
    ELSE LET r == Retrieve(store, arr, id) IN
    IF r.err # NoErr THEN [fv |-> FALSE, err |-> r.err]
    ELSE IF r.psi = Nil THEN [fv |-> FALSE, err |-> ErrNoData]
    ELSE IF f.State # Nil /\ Deref(r.psi).State # Deref(f.State)
         THEN [fv |-> FALSE, err |-> NoErr]
    ELSE IF ~SelectorMatches(f.LabelSelector, Deref(r.psi).Config.Labels)
         THEN [fv |-> FALSE, err |-> NoErr]
    ELSE [fv |-> TRUE, err |-> NoErr]

\* ------------------------------------------------------------------ inputs
InputRecords ==
    { PodSandboxInfo(<< >>, "READY", [env |-> "p"]),
      PodSandboxInfo(<< 98 >>, "READY", [env |-> "d"]) }

\* The updaters callers pass to Save: store a given record, delete, fail,
\* and set the state of the current record if there is one.
Updaters ==
    [kind : {"put"}, rec : InputRecords, state : {"READY"}]
    \cup [kind : {"delete", "fail"},
          rec : {PodSandboxInfo(<< >>, "READY", [env |-> "p"])}, state : {"READY"}]
    \cup [kind : {"setState"},
          rec : {PodSandboxInfo(<< >>, "READY", [env |-> "p"])}, state : {"NOTREADY"}]

NoUpdater == [kind |-> "none", rec |-> PodSandboxInfo(<< >>, "READY", [env |-> "p"]),
              state |-> "READY"]

\* updater(current)
ApplyUpdater(u, cur) ==
    CASE u.kind = "put" -> [newData |-> Ptr(u.rec), err |-> NoErr]
      [] u.kind = "delete" -> [newData |-> Nil, err |-> NoErr]
      [] u.kind = "fail" -> [newData |-> Nil, err |-> ErrUpdater]
      [] OTHER -> IF cur = Nil THEN [newData |-> Nil, err |-> NoErr]
                  ELSE [newData |-> Ptr([Deref(cur) EXCEPT !.State = u.state]),
                        err |-> NoErr]

\* The filters callers pass to ListPodSandboxes; Nil is the nil filter.
Filters ==
    {Nil} \cup
    { Ptr(f) : f \in [Id : { << >>, << 97 >> },
                      State : { Nil, Ptr("READY") },
                      LabelSelector : { [env |-> Absent], [env |-> "p"] }] }

\* ------------------------------------------------------------------ state
VARIABLES
    db,           \* the committed contents of the bolt file: bucket name -> bucket
    prefixArray,  \* the array behind the sandboxKeyPrefix slice
    rwlock,       \* db.rwlock: the caller holding the one write transaction, or 0
    mmapPending,  \* a committing writer waits in db.mmaplock.Lock() for the readers
    pc,           \* where each caller is
    call,         \* the call each caller runs: operation and arguments
    tx,           \* the view of each caller's open transaction
    key,          \* Save's local key
    bucket,       \* Save's local bucket: the name of the bucket it points to
    current,      \* Save's local current
    cursor,       \* ListPodSandboxes' cursor position k
    result,       \* ListPodSandboxes' local result (the IDs of the accessors)
    ret,          \* what the call returned
    ncalls,       \* calls issued so far
    lastCommitted,\* history: per ID, what the updater of the last committed Save returned
    obs           \* history: what each caller's current call has done and seen

vars == << db, prefixArray, rwlock, mmapPending, pc, call, tx, key, bucket,
           current, cursor, result, ret, ncalls, lastCommitted, obs >>

NoCall == [op |-> "none", id |-> << >>, updater |-> NoUpdater, filter |-> Nil]
NoRet == [psi |-> Nil, err |-> NoErr, list |-> << >>]
\* Per ID: the record the updater of the last committed Save returned (nil
\* when it deleted, or when there was none) and whether that Save, or the
\* last one before a run of deletes, deleted a saved record.
NeverSaved == [id \in IDs |-> [rec |-> Nil, deleted |-> FALSE]]

\* The history of a call: transactions begun and ended, write transactions
\* committed and rolled back, whether the view of a read transaction differed
\* from its snapshot when its function returned, whether the updater ran and
\* what it returned, the committed store right before and right after
\* the end of its write transaction, lastCommitted when its (first) transaction
\* began, the IDs on which a Save committed while its scan was in flight, and
\* whether a Save on the same ID ended its write transaction while this Save
\* was waiting to begin its own.
NoObs == [txs |-> 0, ended |-> 0, commits |-> 0, rollbacks |-> 0, wrote |-> FALSE,
          invoked |-> FALSE, pre |-> EmptyDB, post |-> EmptyDB,
          start |-> NeverSaved, newData |-> Nil,
          dirty |-> {}, behind |-> FALSE]

Init ==
    /\ db = EmptyDB
    /\ prefixArray = PrefixArrayInit
    /\ rwlock = 0
    /\ mmapPending = FALSE
    /\ pc = [p \in Procs |-> "idle"]
    /\ call = [p \in Procs |-> NoCall]
    /\ tx = [p \in Procs |-> EmptyDB]
    /\ key = [p \in Procs |-> NoKey]
    /\ bucket = [p \in Procs |-> Nil]
    /\ current = [p \in Procs |-> Nil]
    /\ cursor = [p \in Procs |-> Nil]
    /\ result = [p \in Procs |-> << >>]
    /\ ret = [p \in Procs |-> NoRet]
    /\ ncalls = 0
    /\ lastCommitted = NeverSaved
    /\ obs = [p \in Procs |-> NoObs]

\* The callers holding an open read transaction (db.mmaplock.RLock()).
Readers == { p \in Procs : pc[p] \in {"ret_read", "list_loop"} }

\* Mutant: write transactions begin without taking db.rwlock.
WriterLockIgnored == TRUE

\* db.rwlock is free: a write transaction may begin.
WriterLockFree == rwlock = 0

\* A caller may issue its next call.  The callers are interchangeable: the
\* one that issues the first call is numbered 1.
CanCall(p) ==
    /\ pc[p] \in {"idle", "done"}
    /\ ncalls < MaxCalls
    /\ ncalls = 0 => p = 1

\* The locals of a caller at the start of a call.
StartCall(p, c) ==
    /\ call' = [call EXCEPT ![p] = c]
    /\ ncalls' = ncalls + 1
    /\ tx' = [tx EXCEPT ![p] = EmptyDB]
    /\ key' = [key EXCEPT ![p] = NoKey]
    /\ bucket' = [bucket EXCEPT ![p] = Nil]
    /\ current' = [current EXCEPT ![p] = Nil]
    /\ cursor' = [cursor EXCEPT ![p] = Nil]
    /\ result' = [result EXCEPT ![p] = << >>]
    /\ obs' = [obs EXCEPT ![p] = NoObs]

\* ------------------------------------------------------------------ Retrieve
\* b.PodSandbox(id).Retrieve() is called: the empty ID is refused at once.
RetrieveCall(p) ==
    /\ CanCall(p)
    /\ \E id \in IDs :
        /\ StartCall(p, [NoCall EXCEPT !.op = "Retrieve", !.id = id])
        /\ IF EmptyID(id)
           THEN /\ pc' = [pc EXCEPT ![p] = "done"]
                /\ ret' = [ret EXCEPT ![p] = [NoRet EXCEPT !.err = ErrInvalidArgument]]
           ELSE /\ pc' = [pc EXCEPT ![p] = "ret_begin"]
                /\ ret' = [ret EXCEPT ![p] = NoRet]
    /\ UNCHANGED << db, prefixArray, rwlock, mmapPending, lastCommitted >>

\* m.client.db.View begins the read transaction: a snapshot of the store.
RetrieveBegin(p) ==
    /\ pc[p] = "ret_begin"
    /\ ~mmapPending
    /\ tx' = [tx EXCEPT ![p] = db]
    /\ obs' = [obs EXCEPT ![p].txs = @ + 1, ![p].start = lastCommitted]
    /\ pc' = [pc EXCEPT ![p] = "ret_read"]
    /\ UNCHANGED << db, prefixArray, rwlock, mmapPending, call, key, bucket, current,
                    cursor, result, ret, ncalls, lastCommitted >>

\* The transaction function runs, the transaction ends, Retrieve returns.
RetrieveRead(p) ==
    /\ pc[p] = "ret_read"
    /\ LET r == RetrieveTx(tx[p], prefixArray, call[p].id) IN
        /\ ret' = [ret EXCEPT ![p] = [NoRet EXCEPT !.psi = r.psi, !.err = r.err]]
        /\ prefixArray' = AppendStore(prefixArray, call[p].id)
        /\ obs' = [obs EXCEPT ![p].ended = @ + 1, ![p].wrote = r.store # tx[p]]
    /\ tx' = [tx EXCEPT ![p] = EmptyDB]
    /\ pc' = [pc EXCEPT ![p] = "done"]
    /\ UNCHANGED << db, rwlock, mmapPending, call, key, bucket, current,
                    cursor, result, ncalls, lastCommitted >>

\* ------------------------------------------------------------------ Save
\* b.PodSandbox(id).Save(updater) is called: the empty ID is refused at once.
SaveCall(p) ==
    /\ CanCall(p)
    /\ \E id \in IDs, u \in Updaters :
        /\ StartCall(p, [NoCall EXCEPT !.op = "Save", !.id = id, !.updater = u])
        /\ IF EmptyID(id)
           THEN /\ pc' = [pc EXCEPT ![p] = "done"]
                /\ ret' = [ret EXCEPT ![p] = [NoRet EXCEPT !.err = ErrInvalidArgument]]
           ELSE /\ pc' = [pc EXCEPT ![p] = "save_begin"]
                /\ ret' = [ret EXCEPT ![p] = NoRet]
    /\ UNCHANGED << db, prefixArray, rwlock, mmapPending, lastCommitted >>

\* m.client.db.Update begins the one write transaction (db.rwlock.Lock()) and
\* the transaction function runs up to the call of the updater: key, the
\* bucket (created if missing) and the current record.
SaveBegin(p) ==
    /\ pc[p] = "save_begin"
    /\ WriterLockFree
    /\ rwlock' = p
    /\ LET id == call[p].id
           b == getSandboxBucket(db, prefixArray, id, TRUE, FALSE)
           r == IF b.err # NoErr THEN [psi |-> Nil, err |-> b.err]
                ELSE retrieveSandboxFromDB(b.store, Deref(b.bucket))
       IN /\ key' = [key EXCEPT ![p] = sandboxKey(id)]
          /\ prefixArray' = AppendStore(prefixArray, id)
          /\ tx' = [tx EXCEPT ![p] = b.store]
          /\ bucket' = [bucket EXCEPT ![p] = b.bucket]
          /\ current' = [current EXCEPT ![p] = r.psi]
          /\ ret' = [ret EXCEPT ![p] = [NoRet EXCEPT !.err = r.err]]
    /\ obs' = [obs EXCEPT ![p].txs = @ + 1]
    /\ pc' = [pc EXCEPT ![p] = "save_update"]
    /\ UNCHANGED << db, mmapPending, call, cursor, result, ncalls, lastCommitted >>

\* Mutant: deleting where no record is stored is an error.
SaveBodyStrictDelete(p) ==
    LET u == ApplyUpdater(call[p].updater, current[p]) IN
    IF ret[p].err # NoErr
    THEN [store |-> tx[p], err |-> ret[p].err, invoked |-> FALSE, newData |-> Nil]
    ELSE IF u.err # NoErr
    THEN [store |-> tx[p], err |-> u.err, invoked |-> TRUE, newData |-> u.newData]
    ELSE IF u.newData = Nil /\ current[p] = Nil
    THEN [store |-> tx[p], err |-> ErrNotFound, invoked |-> TRUE, newData |-> Nil]
    ELSE IF u.newData = Nil
    THEN [store |-> DeleteBucket(tx[p], KeyBytes(prefixArray, key[p])),
          err |-> NoErr, invoked |-> TRUE, newData |-> Nil]
    ELSE [store |-> saveSandboxToDB(tx[p], Deref(bucket[p]), Deref(u.newData)),
          err |-> NoErr, invoked |-> TRUE, newData |-> u.newData]

\* The rest of the transaction function: what it returns and the view of the
\* transaction afterwards.
SaveBody(p) ==
    LET u == ApplyUpdater(call[p].updater, current[p]) IN
    IF ret[p].err # NoErr
    THEN [store |-> tx[p], err |-> ret[p].err, invoked |-> FALSE, newData |-> Nil]
    ELSE IF u.err # NoErr
    THEN [store |-> tx[p], err |-> u.err, invoked |-> TRUE, newData |-> u.newData]
    ELSE IF u.newData = Nil
    THEN [store |-> DeleteBucket(tx[p], KeyBytes(prefixArray, key[p])),
          err |-> NoErr, invoked |-> TRUE, newData |-> Nil]
    ELSE [store |-> saveSandboxToDB(tx[p], Deref(bucket[p]), Deref(u.newData)),
          err |-> NoErr, invoked |-> TRUE, newData |-> u.newData]

\* Mutant: db.Update commits also when the function returned an error.
CommitsOnError(err) == TRUE

\* db.Update commits when the transaction function returned nil and rolls
\* back when it returned an error.
Commits(err) == err = NoErr

\* Mutant: the transaction is committed whatever the function returned.
UpdateOutcomeAlwaysCommits(committed, txview, err) == txview

\* db.Update after the transaction function returned err with the view
\* txview: rollback on an error, commit otherwise.
UpdateOutcome(committed, txview, err) ==
    IF Commits(err) THEN txview ELSE committed

\* The write transaction of p ends leaving `store` as the committed store and
\* Save returns err; o is the history of p's call up to here.
EndUpdate(p, store, err, committed, o) ==
    /\ db' = store
    /\ rwlock' = 0
    /\ ret' = [ret EXCEPT ![p] = [NoRet EXCEPT !.err = err]]
    /\ lastCommitted' =
         IF committed
         THEN [lastCommitted EXCEPT ![call[p].id] =
                 [rec |-> o.newData,
                  deleted |-> o.newData = Nil /\ (@.rec # Nil \/ @.deleted)]]
         ELSE lastCommitted
    /\ obs' = [q \in Procs |->
                IF q = p
                THEN [o EXCEPT !.ended = @ + 1, !.pre = db, !.post = store,
                               !.commits = @ + (IF committed THEN 1 ELSE 0),
                               !.rollbacks = @ + (IF committed THEN 0 ELSE 1)]
                ELSE IF committed /\ pc[q] = "list_loop"
                THEN [obs[q] EXCEPT !.dirty = @ \cup {call[p].id}]
                ELSE IF pc[q] = "save_begin" /\ call[q].id = call[p].id
                THEN [obs[q] EXCEPT !.behind = TRUE]
                ELSE obs[q]]
    /\ tx' = [tx EXCEPT ![p] = EmptyDB]
    /\ key' = [key EXCEPT ![p] = NoKey]
    /\ bucket' = [bucket EXCEPT ![p] = Nil]
    /\ current' = [current EXCEPT ![p] = Nil]
    /\ pc' = [pc EXCEPT ![p] = "done"]

\* The updater runs, the transaction function returns and db.Update rolls
\* back or commits.  A commit that has to grow the memory map first waits in
\* db.mmaplock.Lock() until every read transaction has ended.
SaveFinish(p) ==
    /\ pc[p] = "save_update"
    /\ LET b == SaveBody(p)
           o == [obs[p] EXCEPT !.invoked = b.invoked, !.newData = b.newData]
       IN \/ /\ EndUpdate(p, UpdateOutcome(db, b.store, b.err), b.err, Commits(b.err), o)
             /\ UNCHANGED mmapPending
          \/ /\ b.err = NoErr
             /\ tx' = [tx EXCEPT ![p] = b.store]
             /\ mmapPending' = TRUE
             /\ obs' = [obs EXCEPT ![p] = o]
             /\ pc' = [pc EXCEPT ![p] = "save_remap"]
             /\ UNCHANGED << db, rwlock, ret, lastCommitted, key, bucket, current >>
    /\ UNCHANGED << prefixArray, call, cursor, result, ncalls >>

\* The readers are gone: the writer remaps and commits.
SaveRemap(p) ==
    /\ pc[p] = "save_remap"
    /\ Readers = {}
    /\ mmapPending' = FALSE
    /\ EndUpdate(p, tx[p], NoErr, TRUE, obs[p])
    /\ UNCHANGED << prefixArray, call, cursor, result, ncalls >>

\* ------------------------------------------------------------------ ListPodSandboxes
ListCall(p) ==
    /\ CanCall(p)
    /\ \E f \in Filters :
        StartCall(p, [NoCall EXCEPT !.op = "List", !.filter = f])
    /\ pc' = [pc EXCEPT ![p] = "list_begin"]
    /\ ret' = [ret EXCEPT ![p] = NoRet]
    /\ UNCHANGED << db, prefixArray, rwlock, mmapPending, lastCommitted >>

\* b.db.View begins the scan's read transaction; c.Seek(sandboxKeyPrefix).
ListBegin(p) ==
    /\ pc[p] = "list_begin"
    /\ ~mmapPending
    /\ tx' = [tx EXCEPT ![p] = db]
    /\ cursor' = [cursor EXCEPT ![p] = CursorSeek(db, sandboxKeyPrefix)]
    /\ obs' = [obs EXCEPT ![p].txs = @ + 1, ![p].start = lastCommitted]
    /\ pc' = [pc EXCEPT ![p] = "list_loop"]
    /\ UNCHANGED << db, prefixArray, rwlock, mmapPending, call, key, bucket, current,
                    result, ret, ncalls, lastCommitted >>

\* Mutant: the scan runs to the last key of the store.
InLoopNoPrefixTest(k) == k # Nil

\* The loop condition: k != nil && bytes.HasPrefix(k, sandboxKeyPrefix)
InLoop(k) == k # Nil /\ HasPrefix(Deref(k), sandboxKeyPrefix)

\* Mutant: an entry whose predicate fails is skipped and the scan goes on.
ScanNeverAborts(err) == FALSE

\* if err != nil { return err }: the scan ends at the entry whose predicate
\* failed.
ScanAborts(err) == err # NoErr

\* One turn of the loop: the accessor of the entry, the filter (whose
\* Retrieve begins and ends a read transaction of its own, on the store as
\* committed now), the append, c.Next().  An error ends the scan.
ListStep(p) ==
    /\ pc[p] = "list_loop"
    /\ InLoop(cursor[p])
    /\ LET k == Deref(cursor[p])
           id == SubSeq(k, Len(sandboxKeyPrefix) + 1, Len(k))
           reads == ~FilterSkipsRetrieve(id, call[p].filter) /\ ~EmptyID(id)
           fr == filterPodSandboxMeta(id, call[p].filter, db, prefixArray)
           wrote == obs[p].wrote \/ (reads /\ Retrieve(db, prefixArray, id).store # db)
       IN /\ reads => ~mmapPending
          /\ prefixArray' = IF reads THEN AppendStore(prefixArray, id) ELSE prefixArray
          /\ IF ScanAborts(fr.err)
             THEN /\ ret' = [ret EXCEPT ![p] = [NoRet EXCEPT !.err = fr.err]]
                  /\ pc' = [pc EXCEPT ![p] = "done"]
                  /\ obs' = [obs EXCEPT ![p].txs = @ + (IF reads THEN 1 ELSE 0),
                                        ![p].ended = @ + (IF reads THEN 2 ELSE 1),
                                        ![p].wrote = wrote]
                  /\ cursor' = [cursor EXCEPT ![p] = Nil]
                  /\ result' = [result EXCEPT ![p] = << >>]
             ELSE /\ result' = [result EXCEPT ![p] = IF fr.fv THEN Append(@, id) ELSE @]
                  /\ cursor' = [cursor EXCEPT ![p] = CursorNext(tx[p], k)]
                  /\ obs' = [obs EXCEPT ![p].txs = @ + (IF reads THEN 1 ELSE 0),
                                        ![p].ended = @ + (IF reads THEN 1 ELSE 0),
                                        ![p].wrote = wrote]
                  /\ UNCHANGED << pc, ret >>
    /\ UNCHANGED << db, rwlock, mmapPending, call, tx, key, bucket, current,
                    ncalls, lastCommitted >>

\* The loop ends: the transaction ends and the result is returned.
ListEnd(p) ==
    /\ pc[p] = "list_loop"
    /\ ~InLoop(cursor[p])
    /\ ret' = [ret EXCEPT ![p] = [NoRet EXCEPT !.list = result[p]]]
    /\ obs' = [obs EXCEPT ![p].ended = @ + 1]
    /\ cursor' = [cursor EXCEPT ![p] = Nil]
    /\ result' = [result EXCEPT ![p] = << >>]
    /\ pc' = [pc EXCEPT ![p] = "done"]
    /\ UNCHANGED << db, prefixArray, rwlock, mmapPending, call, tx, key, bucket,
                    current, ncalls, lastCommitted >>

\* ------------------------------------------------------------------ system
Next ==
    \/ \E p \in Procs : RetrieveCall(p)
    \/ \E p \in Procs : RetrieveBegin(p)
    \/ \E p \in Procs : RetrieveRead(p)
    \/ \E p \in Procs : SaveCall(p)
    \/ \E p \in Procs : SaveBegin(p)
    \/ \E p \in Procs : SaveFinish(p)
    \/ \E p \in Procs : SaveRemap(p)
    \/ \E p \in Procs : ListCall(p)
    \/ \E p \in Procs : ListBegin(p)
    \/ \E p \in Procs : ListStep(p)
    \/ \E p \in Procs : ListEnd(p)

Spec == Init /\ [][Next]_vars

\* A call that has begun goes on whenever its next step is possible: the
\* scheduler runs every goroutine that is not blocked.  Whether and when a
\* caller issues a call is up to the caller.
Fairness ==
    \A p \in Procs :
        /\ WF_vars(RetrieveBegin(p))
        /\ WF_vars(RetrieveRead(p))
        /\ WF_vars(SaveBegin(p))
        /\ WF_vars(SaveFinish(p))
        /\ WF_vars(SaveRemap(p))
        /\ WF_vars(ListBegin(p))
        /\ WF_vars(ListStep(p))
        /\ WF_vars(ListEnd(p))

FairSpec == Init /\ [][Next]_vars /\ Fairness

\* ------------------------------------------------------------------ opened file
\* What a file written earlier, by any version of the program or left damaged,
\* can hold under a sandbox key when it is opened: no bucket, a bucket
\* without payload, a payload that does not parse, or an encoded record.
OpenedBuckets ==
    { Nil, Ptr(EmptyBucket), Ptr([data |-> Ptr(CorruptData)]) }
    \cup { Ptr([data |-> Ptr(Marshal(r))]) : r \in InputRecords }

\* The stores a file can hold when it is opened; the buckets of the other
\* kinds of metadata are there or not.
OpenedStores ==
    { s \in [Keys -> OpenedBuckets] :
        \E f \in { Nil, Ptr(EmptyBucket) } : \A k \in ForeignKeys : s[k] = f }

\* The program starts on an opened file.
InitOpened ==
    /\ db \in OpenedStores
    /\ prefixArray = PrefixArrayInit
    /\ rwlock = 0
    /\ mmapPending = FALSE
    /\ pc = [p \in Procs |-> "idle"]
    /\ call = [p \in Procs |-> NoCall]
    /\ tx = [p \in Procs |-> EmptyDB]
    /\ key = [p \in Procs |-> NoKey]
    /\ bucket = [p \in Procs |-> Nil]
    /\ current = [p \in Procs |-> Nil]
    /\ cursor = [p \in Procs |-> Nil]
    /\ result = [p \in Procs |-> << >>]
    /\ ret = [p \in Procs |-> NoRet]
    /\ ncalls = 0
    /\ lastCommitted = NeverSaved
    /\ obs = [p \in Procs |-> NoObs]

\* One caller issues its calls one after the other.
NextOpened ==
    \/ RetrieveCall(1)
    \/ RetrieveBegin(1)
    \/ RetrieveRead(1)
    \/ SaveCall(1)
    \/ SaveBegin(1)
    \/ SaveFinish(1)
    \/ SaveRemap(1)
    \/ ListCall(1)
    \/ ListBegin(1)
    \/ ListStep(1)
    \/ ListEnd(1)

SpecOpened == InitOpened /\ [][NextOpened]_vars

\* ------------------------------------------------------------------ properties
\* The region of an ID is the bucket named by the prefix followed by the ID.
IdKey(id) == sandboxKeyPrefix \o id

\* What of a record is persisted: everything but the ID.
Persisted(rec) == [rec EXCEPT !.PodID = << >>]

OptPersisted(r) == IF r = Nil THEN Nil ELSE Ptr(Persisted(Deref(r)))

\* The record a store holds for an ID, nil when it holds no region, no payload
\* or a payload that does not parse.
StoredRecord(store, id) ==
    IF store[IdKey(id)] = Nil THEN Nil
    ELSE LET d == Deref(store[IdKey(id)]).data IN
         IF d = Nil \/ ~Decodes(Deref(d)) THEN Nil ELSE Ptr(Unmarshal(Deref(d)))

Done(p, op) == pc[p] = "done" /\ call[p].op = op

InWriteTx(p) == pc[p] \in {"save_update", "save_remap"}

\* The IDs a returned list holds.
ListedIDs(list) == { list[i] : i \in 1..Len(list) }

\* A record of sandbox id meets every constraint the filter sets.
Satisfies(filter, id, rec) ==
    filter # Nil =>
        /\ Deref(filter).Id # << >> => id = Deref(filter).Id
        /\ Deref(filter).State # Nil => rec.State = Deref(Deref(filter).State)
        /\ \A k \in DOMAIN Deref(filter).LabelSelector :
              Deref(filter).LabelSelector[k] # Absent =>
                 rec.Config.Labels[k] = Deref(filter).LabelSelector[k]

\* C1: Saves on the same ID are serialized: at most one write transaction is
\* open at a time, the record an updater is given is the one committed for
\* its ID for as long as its transaction is open, and what a Save commits is
\* its updater applied to the record committed right before its commit, so
\* that no committed update is lost.
C1_SavesSerialized ==
    /\ Cardinality({ p \in Procs : InWriteTx(p) }) <= 1
    /\ \A p \in Procs :
        /\ pc[p] = "save_update" => current[p] = StoredRecord(db, call[p].id)
        /\ Done(p, "Save") /\ obs[p].invoked /\ ret[p].err = NoErr =>
             StoredRecord(obs[p].post, call[p].id) =
               OptPersisted(ApplyUpdater(call[p].updater,
                                         StoredRecord(obs[p].pre, call[p].id)).newData)

\* C1 witness: a Save that waited behind another Save on its ID is given the
\* record that one left committed.
C1_Witness ==
    \E p \in Procs :
        /\ pc[p] = "save_update" /\ obs[p].behind
        /\ current[p] # Nil
        /\ call[p].updater.kind = "setState"

\* The scan of ListPodSandboxes run against one fixed store.
RECURSIVE ScanFrom(_, _, _, _)
ScanFrom(store, filter, k, acc) ==
    IF ~InLoop(k) THEN [NoRet EXCEPT !.list = acc]
    ELSE LET id == SubSeq(Deref(k), Len(sandboxKeyPrefix) + 1, Len(Deref(k)))
             fr == filterPodSandboxMeta(id, filter, store, prefixArray)
         IN IF fr.err # NoErr THEN [NoRet EXCEPT !.err = fr.err]
            ELSE ScanFrom(store, filter, CursorNext(store, Deref(k)),
                          IF fr.fv THEN Append(acc, id) ELSE acc)

ListAgainst(store, filter) ==
    ScanFrom(store, filter, CursorSeek(store, sandboxKeyPrefix), << >>)

\* C2: a ListPodSandboxes call returns what it would have returned against
\* the store as it was when its scan transaction began, whatever Saves commit
\* while it is in flight.
C2_ScanIsolated ==
    \A p \in Procs :
        Done(p, "List") => ret[p] = ListAgainst(tx[p], call[p].filter)

\* C3: a Retrieve returns the result of the last Save committed on its ID
\* before its transaction began (NotFound when that was a delete or there was
\* none); the updater of a Save is given the result of the last committed
\* Save on its ID; a ListPodSandboxes lists an ID on which no Save committed
\* during the scan exactly when the last Save committed on it before the scan
\* began left a record meeting the filter, and fails only if a Save committed
\* during the scan.
C3_CommittedVisible ==
    \A p \in Procs :
        /\ Done(p, "Retrieve") /\ call[p].id # << >> =>
             LET e == obs[p].start[call[p].id].rec IN
             IF e = Nil THEN ret[p].psi = Nil /\ ret[p].err = ErrNotFound
             ELSE /\ ret[p].err = NoErr
                  /\ ret[p].psi = Ptr([Deref(e) EXCEPT !.PodID = call[p].id])
        /\ pc[p] = "save_update" =>
             current[p] = OptPersisted(lastCommitted[call[p].id].rec)
        /\ Done(p, "List") /\ ret[p].err = NoErr =>
             \A id \in IDs \ obs[p].dirty :
                 id \in ListedIDs(ret[p].list) <=>
                    /\ obs[p].start[id].rec # Nil
                    /\ Satisfies(call[p].filter, id, Deref(obs[p].start[id].rec))
        /\ Done(p, "List") /\ ret[p].err # NoErr => obs[p].dirty # {}

\* C3 witness: after two Saves on one ID (a put, then a change of state) a
\* Retrieve returns the second's result.
C3_Witness ==
    \E p \in Procs :
        /\ Done(p, "Retrieve") /\ ret[p].psi # Nil
        /\ Deref(ret[p].psi).State = "NOTREADY"

\* C4: a Save whose updater fails returns the updater's error and leaves the
\* committed store as it was, and neither the committed store nor the view of
\* any read transaction ever holds a region without payload.
C4_UpdaterErrorRollsBack ==
    /\ \A p \in Procs :
        Done(p, "Save") /\ call[p].id # << >> /\ call[p].updater.kind = "fail" =>
            /\ ret[p].err = ErrUpdater
            /\ obs[p].invoked
            /\ obs[p].post = obs[p].pre
    /\ \A k \in Keys :
        /\ db[k] # Ptr(EmptyBucket)
        /\ \A q \in Readers : tx[q][k] # Ptr(EmptyBucket)

\* C4 witness: a failed Save on a saved ID and a failed Save on an ID without
\* region have both returned.
C4_Witness ==
    \E p, q \in Procs :
        /\ Done(p, "Save") /\ call[p].updater.kind = "fail" /\ call[p].id # << >>
        /\ obs[p].pre[IdKey(call[p].id)] # Nil
        /\ Done(q, "Save") /\ call[q].updater.kind = "fail" /\ call[q].id # << >>
        /\ obs[q].pre[IdKey(call[q].id)] = Nil

\* C5: in every committed store the region of an ID exists exactly when a
\* record was saved for the ID and not deleted since, and every region holds
\* a payload.
C5_RegionIffSaved ==
    \A id \in IDs :
        /\ db[IdKey(id)] # Nil <=> lastCommitted[id].rec # Nil
        /\ db[IdKey(id)] # Nil => Deref(db[IdKey(id)]).data # Nil

\* C5 witness: one ID holds a record, another was saved and deleted again.
C5_Witness ==
    /\ \E id \in IDs : db[IdKey(id)] # Nil
    /\ \E id \in IDs : lastCommitted[id].deleted /\ db[IdKey(id)] = Nil

\* C6: a Save whose updater returns nil on a saved ID removes the whole
\* region; a Retrieve begun while the last committed Save on its ID is such
\* a delete fails with NotFound and returns no record; a ListPodSandboxes
\* begun then does not list the ID unless a Save on it commits during the scan.
C6_DeleteRemovesRegion ==
    \A p \in Procs :
        /\ Done(p, "Save") /\ call[p].id # << >> /\ call[p].updater.kind = "delete" =>
             /\ ret[p].err = NoErr
             /\ obs[p].post[IdKey(call[p].id)] = Nil
        /\ Done(p, "Retrieve") /\ obs[p].start[call[p].id].deleted =>
             ret[p].err = ErrNotFound /\ ret[p].psi = Nil
        /\ Done(p, "List") /\ ret[p].err = NoErr =>
             \A id \in IDs \ obs[p].dirty :
                 obs[p].start[id].deleted => id \notin ListedIDs(ret[p].list)

\* C6 witness: a Retrieve on an ID saved and then deleted has failed with
\* NotFound.
C6_Witness ==
    \E p \in Procs :
        /\ Done(p, "Retrieve") /\ obs[p].start[call[p].id].deleted
        /\ ret[p].err = ErrNotFound

\* C7: a Save whose updater returns nil on an ID without region succeeds and
\* leaves the committed store as it was.
C7_DeleteAbsentIsNoop ==
    \A p \in Procs :
        /\ Done(p, "Save") /\ call[p].id # << >> /\ call[p].updater.kind = "delete"
        /\ obs[p].pre[IdKey(call[p].id)] = Nil
        => /\ ret[p].err = NoErr
           /\ obs[p].post = obs[p].pre

\* C7 witness: a delete repeated on an ID already deleted has returned.
C7_Witness ==
    \E p \in Procs :
        /\ Done(p, "Save") /\ call[p].id # << >> /\ call[p].updater.kind = "delete"
        /\ obs[p].pre[IdKey(call[p].id)] = Nil
        /\ lastCommitted[call[p].id].deleted

\* C8: a Retrieve begun while the last committed Save on its (non-empty) ID
\* stored R returns a record with R's state and config and with the
\* accessor's ID, whatever ID R carried.
C8_RoundTrip ==
    \A p \in Procs :
        /\ Done(p, "Retrieve") /\ call[p].id # << >>
        /\ obs[p].start[call[p].id].rec # Nil
        => /\ ret[p].err = NoErr
           /\ ret[p].psi # Nil
           /\ Deref(ret[p].psi).State = Deref(obs[p].start[call[p].id].rec).State
           /\ Deref(ret[p].psi).Config = Deref(obs[p].start[call[p].id].rec).Config
           /\ Deref(ret[p].psi).PodID = call[p].id

\* C8 witness: the record saved carried the ID of another sandbox.
C8_Witness ==
    \E p \in Procs :
        /\ Done(p, "Retrieve") /\ call[p].id = << 97 >> /\ ret[p].psi # Nil
        /\ Deref(obs[p].start[call[p].id].rec).PodID = << 98 >>

\* C9: a Retrieve or Save on the empty ID has returned InvalidArgument and no
\* record as soon as it is called, without a transaction, without running
\* the updater and without a change of the store.
C9_EmptyIDRejected ==
    \A p \in Procs :
        call[p].op \in {"Retrieve", "Save"} /\ call[p].id = << >> =>
            /\ pc[p] = "done"
            /\ ret[p].err = ErrInvalidArgument
            /\ ret[p].psi = Nil
            /\ obs[p].txs = 0
            /\ ~obs[p].invoked
            /\ obs[p].post = obs[p].pre
            /\ db[IdKey(<< >>)] = Nil

\* C9 witness: a Save and a Retrieve on the empty ID have returned, the store
\* holding a record.
C9_Witness ==
    \E p, q \in Procs :
        /\ Done(p, "Save") /\ call[p].id = << >>
        /\ Done(q, "Retrieve") /\ call[q].id = << >>
        /\ \E k \in Keys : db[k] # Nil

\* The stored sandboxes of a store that meet every constraint of the filter.
Matching(store, filter) ==
    { id \in IDs : /\ store[IdKey(id)] # Nil
                   /\ StoredRecord(store, id) # Nil
                   /\ Satisfies(filter, id, Deref(StoredRecord(store, id))) }

\* C10: a ListPodSandboxes with a non-nil filter during whose scan no Save
\* committed returns without error exactly the stored sandboxes that meet
\* every constraint the filter sets, each once.
C10_FilterConjunction ==
    \A p \in Procs :
        Done(p, "List") /\ call[p].filter # Nil /\ obs[p].dirty = {} =>
            /\ ret[p].err = NoErr
            /\ ListedIDs(ret[p].list) = Matching(tx[p], call[p].filter)
            /\ Len(ret[p].list) = Cardinality(Matching(tx[p], call[p].filter))

\* C10 witness: with a READY and labelled env=p, b READY and labelled env=d,
\* the filter {state: READY, labels: env=p} lists a alone.
C10_Witness ==
    \E p \in Procs :
        /\ Done(p, "List")
        /\ call[p].filter = Ptr([Id |-> << >>, State |-> Ptr("READY"),
                                 LabelSelector |-> [env |-> "p"]])
        /\ obs[p].dirty = {}
        /\ tx[p][IdKey(<< 97 >>)] # Nil /\ tx[p][IdKey(<< 98 >>)] # Nil
        /\ ret[p].list = << << 97 >> >>

\* A store with every sandbox region but the one of id removed.
OnlyRegion(store, id) ==
    [k \in Keys |-> IF k = IdKey(id) THEN store[k] ELSE Nil]

\* C11: a ListPodSandboxes whose filter sets the id X opens, besides the
\* scan's transaction, a read transaction for X alone (none when X is not
\* stored) and returns what it would return were the other regions not
\* there, whatever they hold: with no region X, the empty collection and no
\* error.
C11_IDShortCircuit ==
    \A p \in Procs :
        Done(p, "List") /\ call[p].filter # Nil /\ Deref(call[p].filter).Id # << >> =>
            LET X == Deref(call[p].filter).Id IN
            /\ obs[p].txs = IF tx[p][IdKey(X)] = Nil THEN 1 ELSE 2
            /\ ret[p] = ListAgainst(OnlyRegion(tx[p], X), call[p].filter)
            /\ tx[p][IdKey(X)] = Nil => ret[p].err = NoErr /\ ret[p].list = << >>

\* C11 witness: the filter names a, which is not stored, while one other
\* region holds a payload that does not parse and another holds none.
C11_Witness ==
    \E p \in Procs :
        /\ Done(p, "List") /\ call[p].filter # Nil
        /\ Deref(call[p].filter).Id = << 97 >>
        /\ tx[p][IdKey(<< 97 >>)] = Nil
        /\ tx[p][IdKey(<< 98 >>)] = Ptr([data |-> Ptr(CorruptData)])
        /\ tx[p][IdKey(<< >>)] = Ptr(EmptyBucket)
        /\ ret[p].err = NoErr /\ ret[p].list = << >>

\* The IDs of the sandbox regions a store holds.
ScannedIDs(store) == { id \in IDs : store[IdKey(id)] # Nil }

\* Whether the predicate reads the record of a scanned ID in a transaction
\* of its own.
PredicateReads(id, filter) == ~FilterSkipsRetrieve(id, filter) /\ id # << >>

\* The error the predicate ends with on a scanned ID of a store: none when
\* it decides without reading; else InvalidArgument for the empty ID, the
\* missing payload, the payload that does not parse.
EntryError(store, id, filter) ==
    IF FilterSkipsRetrieve(id, filter) THEN NoErr
    ELSE IF id = << >> THEN ErrInvalidArgument
    ELSE LET d == Deref(store[IdKey(id)]).data IN
         IF d = Nil THEN ErrNoData
         ELSE IF ~Decodes(Deref(d)) THEN ErrDecode
         ELSE NoErr

\* C12: a ListPodSandboxes returns an error exactly when the predicate fails
\* on a scanned entry; it then returns the error of the first such entry in
\* key order and the nil collection, and has read no entry after that one.
C12_FirstErrorAborts ==
    \A p \in Procs :
        Done(p, "List") =>
            LET f == call[p].filter
                bad == { id \in ScannedIDs(tx[p]) : EntryError(tx[p], id, f) # NoErr }
            IN IF bad = {} THEN ret[p].err = NoErr
               ELSE LET first == CHOOSE id \in bad :
                                    \A j \in bad : j = id \/ LexLess(id, j)
                    IN /\ ret[p].err = EntryError(tx[p], first, f)
                       /\ ret[p].list = << >>
                       /\ obs[p].txs = 1 + Cardinality(
                             { id \in ScannedIDs(tx[p]) :
                                 ~LexLess(first, id) /\ PredicateReads(id, f) })

\* C12 witness: a matches the filter and comes first, b holds a payload that
\* does not parse: the list is the decode error and no collection.
C12_Witness ==
    \E p \in Procs :
        /\ Done(p, "List") /\ call[p].filter # Nil
        /\ tx[p][IdKey(<< >>)] = Nil
        /\ tx[p][IdKey(<< 97 >>)] # Nil
        /\ StoredRecord(tx[p], << 97 >>) # Nil
        /\ EntryError(tx[p], << 97 >>, call[p].filter) = NoErr
        /\ Satisfies(call[p].filter, << 97 >>, Deref(StoredRecord(tx[p], << 97 >>)))
        /\ tx[p][IdKey(<< 98 >>)] = Ptr([data |-> Ptr(CorruptData)])
        /\ ret[p].err = ErrDecode /\ ret[p].list = << >>

\* C13: a Retrieve on a non-empty ID fails with NotFound, returning no
\* record, exactly when the store holds no region for the ID; on a region
\* without payload it returns no record and no error.
C13_NotFoundVersusNoData ==
    \A p \in Procs :
        Done(p, "Retrieve") /\ call[p].id # << >> =>
            LET region == db[IdKey(call[p].id)] IN
            /\ ret[p].err = ErrNotFound <=> region = Nil
            /\ region = Nil => ret[p].psi = Nil
            /\ region = Ptr(EmptyBucket) => ret[p].psi = Nil /\ ret[p].err = NoErr
            /\ ret[p].psi = Nil /\ ret[p].err = NoErr => region = Ptr(EmptyBucket)

\* C13 witness: a Retrieve on a region without payload has returned no
\* record and no error.
C13_Witness ==
    \E p \in Procs :
        /\ Done(p, "Retrieve") /\ call[p].id # << >>
        /\ db[IdKey(call[p].id)] = Ptr(EmptyBucket)
        /\ ret[p].psi = Nil /\ ret[p].err = NoErr

\* C14: the collection a successful ListPodSandboxes returns is in strictly
\* ascending lexicographic order of ID (so no ID comes twice), and each ID in
\* it is a key of the scan's transaction with the prefix stripped: a key
\* without the prefix contributes nothing.
C14_ListedInKeyOrder ==
    \A p \in Procs :
        Done(p, "List") /\ ret[p].err = NoErr =>
            LET l == ret[p].list IN
            /\ \A i \in 1..Len(l) - 1 : LexLess(l[i], l[i + 1])
            /\ \A i \in 1..Len(l) : tx[p][sandboxKeyPrefix \o l[i]] # Nil

\* C14 witness: the store holds the regions "", a and b between the buckets
\* of other kinds of metadata, and the list is "", a, b.
C14_Witness ==
    \E p \in Procs :
        /\ Done(p, "List") /\ ret[p].err = NoErr
        /\ \A k \in ForeignKeys : tx[p][k] # Nil
        /\ ret[p].list = << << >>, << 97 >>, << 98 >> >>

\* The filter that sets no id, no state and no label selector.
EmptyFilter == Ptr([Id |-> << >>, State |-> Nil, LabelSelector |-> [env |-> Absent]])

\* The IDs of a set in ascending order.
RECURSIVE Ascending(_)
Ascending(S) ==
    IF S = {} THEN << >>
    ELSE LET m == CHOOSE id \in S : \A j \in S : j = id \/ LexLess(id, j)
         IN << m >> \o Ascending(S \ {m})

\* C15: a ListPodSandboxes with the nil filter and one with the empty filter
\* both return, without error, the accessor of every sandbox region in the
\* scan's transaction, whatever Saves run meanwhile.
C15_NilAndEmptyFilterMatchAll ==
    \A p \in Procs :
        Done(p, "List") /\ call[p].filter \in { Nil, EmptyFilter } =>
            /\ ret[p].err = NoErr
            /\ ret[p].list = Ascending(ScannedIDs(tx[p]))

\* C16: a Save that has returned opened one write transaction (none for the
\* empty ID, which is refused before) and ended it by exactly one commit,
\* when it returns no error, or exactly one rollback, when it returns one,
\* the rollback leaving the store as it was; a Retrieve and a
\* ListPodSandboxes commit nothing; and every call that has returned has
\* ended every transaction it began and holds neither the writer lock nor a
\* read transaction.
C16_TransactionsReleased ==
    \A p \in Procs :
        /\ Done(p, "Save") =>
             /\ obs[p].txs = IF call[p].id = << >> THEN 0 ELSE 1
             /\ obs[p].commits + obs[p].rollbacks = obs[p].txs
             /\ obs[p].commits = 1 <=> ret[p].err = NoErr
             /\ obs[p].rollbacks = 1 => obs[p].post = obs[p].pre
        /\ Done(p, "Retrieve") \/ Done(p, "List") =>
             obs[p].commits = 0 /\ obs[p].rollbacks = 0
        /\ pc[p] = "done" =>
             /\ obs[p].ended = obs[p].txs
             /\ rwlock # p
             /\ p \notin Readers

\* C16 witness: a Save has failed because the stored payload does not parse
\* and has rolled back.
C16_Witness ==
    \E p \in Procs :
        /\ Done(p, "Save") /\ ret[p].err = ErrDecode
        /\ ~obs[p].invoked
        /\ obs[p].rollbacks = 1 /\ obs[p].commits = 0

\* A step of a call that has begun, by any caller.
CallStep ==
    \E p \in Procs :
        \/ RetrieveBegin(p) \/ RetrieveRead(p)
        \/ SaveBegin(p) \/ SaveFinish(p) \/ SaveRemap(p)
        \/ ListBegin(p) \/ ListStep(p) \/ ListEnd(p)

\* C17, as a liveness property of FairSpec: under fair scheduling every
\* ListPodSandboxes call that has been issued returns.
C17_ListReturns ==
    \A p \in Procs :
        (pc[p] \in {"list_begin", "list_loop"}) ~> (pc[p] = "done")

\* C17, in the form a finite run refutes: while a ListPodSandboxes call is in
\* flight, some call that has begun can take a step, so that the scan and a
\* writer never wait on each other.
C17_ScanNeverStuck ==
    (\E p \in Procs : pc[p] \in {"list_begin", "list_loop"}) => ENABLED CallStep

\* C18: nothing is ever written to the array behind sandboxKeyPrefix, and
\* for as long as a Save holds its key and its bucket, the key reads as the
\* prefix followed by the Save's own ID, in storage of its own, and the
\* bucket is the region of that ID, whatever sandboxKey calls other
\* operations make meanwhile.
C18_KeyIsPrefixThenID ==
    /\ prefixArray = PrefixArrayInit
    /\ SubSeq(prefixArray, 1, Len(sandboxKeyPrefix)) = sandboxKeyPrefix
    /\ \A p \in Procs :
        InWriteTx(p) =>
            /\ KeyBytes(prefixArray, key[p]) = sandboxKeyPrefix \o call[p].id
            /\ ~key[p].shared
            /\ bucket[p] = Ptr(sandboxKeyPrefix \o call[p].id)

\* C18 witness: a Save that deletes a holds its key while the other caller
\* has run an operation on b, whose region is stored.
C18_Witness ==
    \E p, q \in Procs :
        /\ pc[p] = "save_update" /\ call[p].id = << 97 >>
        /\ call[p].updater.kind = "delete"
        /\ pc[q] = "done" /\ call[q].id = << 98 >> /\ obs[q].txs = 1
        /\ db[IdKey(<< 98 >>)] # Nil

\* C19: the write transaction of a Save differs from the committed store at
\* most in the region of the Save's ID, and a Save that has returned (having
\* created, updated, deleted or failed) left the bucket and the payload
\* under every other key as they were.
C19_SaveFrame ==
    \A p \in Procs :
        /\ InWriteTx(p) =>
             \A k \in Keys \ { IdKey(call[p].id) } : tx[p][k] = db[k]
        /\ Done(p, "Save") =>
             \A k \in Keys \ { IdKey(call[p].id) } : obs[p].post[k] = obs[p].pre[k]

\* C19 witness: with a and b stored, a Save has deleted a and b is as before.
C19_Witness ==
    \E p \in Procs :
        /\ Done(p, "Save") /\ call[p].id = << 97 >>
        /\ call[p].updater.kind = "delete"
        /\ obs[p].pre[IdKey(<< 97 >>)] # Nil /\ obs[p].pre[IdKey(<< 98 >>)] # Nil
        /\ obs[p].post[IdKey(<< 97 >>)] = Nil
        /\ obs[p].post[IdKey(<< 98 >>)] = obs[p].pre[IdKey(<< 98 >>)]

\* C20: obtaining an accessor and entering a call begin no transaction, and
\* a Retrieve or a ListPodSandboxes, the nested Retrieve of its predicate
\* included, commits nothing and leaves the view of each of its read
\* transactions as the snapshot it began with: no region is created, none
\* removed and no payload changed, also when the ID read has no region.
\* The committed store holds a region only where a Save stored a record.
C20_ReadsLeaveStore ==
    /\ \A p \in Procs :
        /\ pc[p] \in {"ret_begin", "save_begin", "list_begin"} => obs[p].txs = 0
        /\ call[p].op \in {"Retrieve", "List"} =>
             /\ ~obs[p].wrote
             /\ obs[p].commits = 0
             /\ rwlock # p
    /\ \A id \in IDs : db[IdKey(id)] # Nil => lastCommitted[id].rec # Nil

\* C20 witness: a scan has evaluated the predicate on an ID whose region a
\* Save deleted meanwhile, and the store holds no region for it.
C20_Witness ==
    \E p \in Procs :
        /\ Done(p, "List") /\ ret[p].err = ErrNotFound
        /\ ~obs[p].wrote
        /\ \E id \in obs[p].dirty : db[IdKey(id)] = Nil /\ tx[p][IdKey(id)] # Nil

====
